---- MODULE Spec2Model ----
(***************************************************************************)
(* A software renderer: a depth-tested framebuffer, a process-wide shader  *)
(* selection, and the frame loop of main() that clears, draws the sun, the *)
(* planets, their trails and two ships, and presents the colour buffer.    *)
(*                                                                         *)
(* Seven specifications are given.  Spec is the frame loop of main().      *)
(* ApiSpec calls the operations of the framebuffer and switch_shader in    *)
(* any order, as a unit test of the library would.  RenderSpec calls the   *)
(* render functions on any fragment.  ShadeSpec calls the fragment shaders *)
(* on any fragment under any selection.  VertexSpec calls vertex_shader    *)
(* and the primitive assembly of render on any vertex array.  RasterSpec   *)
(* rasterizes a triangle and processes its fragments.  DrawSpec calls the  *)
(* render functions on fragments that the shaders have coloured.           *)
(***************************************************************************)
EXTENDS Integers, Sequences, FiniteSets, TLC

VARIABLES
    width, height,       \* Framebuffer.width, Framebuffer.height
    buffer,              \* Framebuffer.buffer: row-major colour array
    zbuffer,             \* the parallel depth array
    background_color,    \* the configured background colour
    current_color,       \* colour consumed by the next point calls
    emission_color,      \* colour consumed by apply_emission
    SHADER_INDEX,        \* static mut SHADER_INDEX: u8
    pc,                  \* position of main()
    stmt,                \* index of the current statement of the loop body
    trail_i,             \* counter of the running trail loop
    fragments,           \* fragments the running render call still has to process
    time,                \* main's frame counter
    uniforms,            \* the Uniforms value of the running render call
    ev,                  \* history: what the last step did
    frame_min,           \* history: least depth submitted per pixel since the last clear
    frame_win,           \* history: per pixel, the colour a render function gave the write that won
    iter,                \* history: what the current loop iteration has done so far
    call,                \* history: the last call of a pure stage, its input and output
    rng,                 \* the StdRng of the last black_and_white call
    switches             \* history: calls of switch_shader so far

vars == <<width, height, buffer, zbuffer, background_color, current_color,
          emission_color, SHADER_INDEX, pc, stmt, trail_i, fragments, time,
          uniforms, ev, frame_min, frame_win, iter, call, rng, switches>>

fbvars == <<width, height, buffer, zbuffer, background_color, current_color,
            emission_color>>

mainvars == <<pc, stmt, trail_i, fragments, time, uniforms>>

(***************************************************************************)
(* Bounds of the model.                                                    *)
(***************************************************************************)
MaxPixels == 2      \* framebuffers hold at most this many pixels
MaxDepth == 1       \* fragment depths are 0..MaxDepth
MaxFragments == 1   \* fragments one render call processes
MaxFrames == 2      \* iterations of the frame loop
MaxRadius == 1      \* radius passed to render_point
TrailLength == 1    \* points of a planet's trail (the program draws 50)
MaxSwitches == 8    \* calls of switch_shader a test of the library makes
MaxCoord == 1       \* model-space coordinates are -MaxCoord..MaxCoord
IntensityScale == 2 \* a fragment's intensity is a multiple of 1 / IntensityScale
MaxScale == 2       \* model matrices scale by 0..MaxScale
MaxVertices == 7    \* vertices of a vertex array
MaxScreen == 2      \* screen coordinates of a triangle's vertices are 0..MaxScreen

Depths == 0..MaxDepth

\* f32::INFINITY: farther than every fragment depth.
FarDepth == MaxDepth + 1

(***************************************************************************)
(* Colours are 0xRRGGBB values.                                            *)
(***************************************************************************)
Black == 0                  \* 0x000000
SunColor == 16768324        \* 0xFFDD44
SunEmission == 16776960     \* 0xFFFF00
White == 16777215           \* 0xFFFFFF

\* Colours a shader hands to set_current_color (after Color::to_hex).
ShadedColors == {SunColor, White}

\* Colours set_background_color is called with.
BackgroundColors == {Black, White}

Min(a, b) == IF a < b THEN a ELSE b

Red(c) == (c \div 65536) % 256

Green(c) == (c \div 256) % 256

Blue(c) == c % 256

\* Additive blend of two colours, each channel saturating at 255.
AddColor(a, b) ==
    Min(255, Red(a) + Red(b)) * 65536
  + Min(255, Green(a) + Green(b)) * 256
  + Min(255, Blue(a) + Blue(b))

(***************************************************************************)
(* Framebuffer.                                                            *)
(***************************************************************************)
Pixels == 0..(width * height - 1)

\* Row-major index of pixel (x, y).
Index(x, y) == y * width + x

InBounds(x, y) == x >= 0 /\ y >= 0 /\ x < width /\ y < height

\* Framebuffer::clear: the buffers after the call.
ClearBuffer == [p \in Pixels |-> background_color]

ClearZBuffer_Keep == zbuffer

ClearZBuffer == [p \in Pixels |-> FarDepth]

\* The depth test of Framebuffer::point; a tie goes to the newer fragment.
DepthTest_Always(depth, stored) == TRUE

DepthTest_Farther(depth, stored) == depth >= stored

DepthTest(depth, stored) == depth <= stored

\* Framebuffer::point(x, y, depth) on buffers b, z with draw colour c.
PointBuffer(b, z, c, x, y, depth) ==
    IF DepthTest(depth, z[Index(x, y)])
    THEN [b EXCEPT ![Index(x, y)] = c]
    ELSE b

PointZBuffer_NoStore(b, z, c, x, y, depth) == z

PointZBuffer(b, z, c, x, y, depth) ==
    IF DepthTest(depth, z[Index(x, y)])
    THEN [z EXCEPT ![Index(x, y)] = depth]
    ELSE z

\* Framebuffer::apply_emission: the emission colour is added to every pixel
\* that has been written since the last clear.
EmissionBuffer(b, z, e) ==
    [p \in DOMAIN b |-> IF z[p] < FarDepth THEN AddColor(b[p], e) ELSE b[p]]

\* History: the least depth submitted per pixel.
SubmitMin(m, x, y, depth) == [m EXCEPT ![Index(x, y)] = Min(@, depth)]

\* History: no render function has written the pixel since the last clear.
NoWinner == [written |-> FALSE, color |-> 0, emissive |-> FALSE]

\* History: a render function shaded a fragment or a trail point with colour
\* c and point wrote it at pixel (x, y) of depth buffer z, if it passed the
\* depth test there.
SubmitWin(w, z, c, x, y, depth) ==
    IF DepthTest(depth, z[Index(x, y)])
    THEN [w EXCEPT ![Index(x, y)] = [written |-> TRUE, color |-> c, emissive |-> FALSE]]
    ELSE w

\* History: apply_emission has added the emission colour to the pixels
\* written so far.
GlowWin(w) == [p \in DOMAIN w |-> [w[p] EXCEPT !.emissive = w[p].written]]

(***************************************************************************)
(* History variables.                                                      *)
(***************************************************************************)
\* ev: the operation of the last step; the arguments of a direct point call
\* and the depth it found stored; whether the pixel of the fragment lay in the frame; the framebuffer calls
\* made; the point writes that passed the depth test; the calls made for a
\* pixel outside the frame; the pixels a clear found changed.
NoEvent == [op |-> "new", x |-> 0, y |-> 0, depth |-> 0, stored |-> 0, inside |-> TRUE,
            shader |-> "none", calls |-> <<>>, accepted |-> 0, stray |-> 0, dirty |-> 0,
            color |-> 0, drawn |-> 0]

Event(op, calls) == [NoEvent EXCEPT !.op = op, !.calls = calls]

\* iter: what the running iteration of the frame loop has done.  handed_off
\* and stale outlive the iteration: the buffer has been handed to the window
\* and not cleared since, and the framebuffer calls made in that interval.
\* index_at_head is the shader index the iteration started with, switches the
\* calls of switch_shader it made, pressed what is_key_pressed returned, and
\* dispatched the objects its fragment_shader calls shaded, each with the
\* index value the call read.
NoIter == [clears |-> 0, presents |-> 0, emissions |-> 0, pointed |-> FALSE,
           begun |-> {}, ended |-> {}, emitted_begun |-> {}, emitted_ended |-> {},
           time_at_head |-> 0, times |-> {}, escaped |-> FALSE,
           handed_off |-> FALSE, stale |-> 0,
           index_at_head |-> 0, switches |-> 0, pressed |-> FALSE, dispatched |-> {}]

IsPoint(name) == name = "point"

HasPoint(calls) == \E k \in 1..Len(calls) : IsPoint(calls[k])

\* iter after a step that made the framebuffer calls `calls`.
NoteCalls(it, calls) ==
    [it EXCEPT !.pointed = @ \/ HasPoint(calls),
               !.stale = IF it.handed_off /\ calls # <<>> THEN 1 ELSE @]

NoUniforms == [time |-> 0, object |-> <<"none", 0>>]

\* call: the stage called, what it was given and what it returned.
NoCall == [op |-> "none"]

(***************************************************************************)
(* The state after Framebuffer::new(w, h), set_background_color(000000)    *)
(* and `let mut time = 0`.  main builds an 800 x 600 framebuffer; the      *)
(* model runs it for every admitted shape.                                 *)
(***************************************************************************)
Shapes == {s \in (1..MaxPixels) \X (1..MaxPixels) : s[1] * s[2] <= MaxPixels}

Init ==
    /\ \E s \in Shapes : width = s[1] /\ height = s[2]
    /\ buffer = [p \in Pixels |-> Black]
    /\ zbuffer = [p \in Pixels |-> FarDepth]
    /\ background_color = Black
    /\ current_color = White
    /\ emission_color = Black
    /\ SHADER_INDEX = 0
    /\ pc = "while"
    /\ stmt = 1
    /\ trail_i = 0
    /\ fragments = 0
    /\ time = 0
    /\ uniforms = NoUniforms
    /\ ev = NoEvent
    /\ frame_min = [p \in Pixels |-> FarDepth]
    /\ frame_win = [p \in Pixels |-> NoWinner]
    /\ iter = NoIter
    /\ call = NoCall
    /\ rng = 0
    /\ switches = 0

(***************************************************************************)
(* shaders.rs: the shader selection.                                       *)
(***************************************************************************)
ShaderCount == 7

\* switch_shader: SHADER_INDEX = (SHADER_INDEX + 1) % 7, in u8 arithmetic.
switch_shader_Mod6(index) == ((index + 1) % 256) % 6

switch_shader_NoWrap(index) == (index + 1) % 256

switch_shader(index) == ((index + 1) % 256) % ShaderCount

\* The match of fragment_shader over SHADER_INDEX.
ShaderName_DefaultDalmata(index) ==
    CASE index = 5 -> "black_and_white"
      [] index = 1 -> "dalmata"
      [] index = 2 -> "cloud"
      [] index = 3 -> "cellular"
      [] index = 4 -> "lava"
      [] index = 6 -> "moon"
      [] OTHER -> "dalmata"

ShaderName(index) ==
    CASE index = 5 -> "black_and_white"
      [] index = 1 -> "dalmata"
      [] index = 2 -> "cloud"
      [] index = 3 -> "cellular"
      [] index = 4 -> "lava"
      [] index = 6 -> "moon"
      [] OTHER -> "cellular"

(***************************************************************************)
(* ApiSpec: the operations of the library, called in any order.            *)
(***************************************************************************)
ApiSetBackgroundColor ==
    \E c \in BackgroundColors :
        /\ background_color' = c
        /\ ev' = Event("set_background_color", <<>>)
        /\ UNCHANGED <<width, height, buffer, zbuffer, current_color, emission_color,
                       SHADER_INDEX, frame_min, frame_win, iter>>
        /\ UNCHANGED mainvars
        /\ UNCHANGED <<call, rng, switches>>

ApiSetCurrentColor ==
    \E c \in ShadedColors :
        /\ current_color' = c
        /\ ev' = Event("set_current_color", <<"set_current_color">>)
        /\ UNCHANGED <<width, height, buffer, zbuffer, background_color, emission_color,
                       SHADER_INDEX, frame_min, frame_win, iter>>
        /\ UNCHANGED mainvars
        /\ UNCHANGED <<call, rng, switches>>

ApiSetEmissionColor ==
    /\ emission_color' = SunEmission
    /\ ev' = Event("set_emission_color", <<"set_emission_color">>)
    /\ UNCHANGED <<width, height, buffer, zbuffer, background_color, current_color,
                   SHADER_INDEX, frame_min, frame_win, iter>>
    /\ UNCHANGED mainvars
    /\ UNCHANGED <<call, rng, switches>>

\* Framebuffer::point(x, y, depth) with valid indices.
ApiPoint ==
    \E x \in 0..(width - 1), y \in 0..(height - 1), depth \in Depths :
        /\ buffer' = PointBuffer(buffer, zbuffer, current_color, x, y, depth)
        /\ zbuffer' = PointZBuffer(buffer, zbuffer, current_color, x, y, depth)
        /\ frame_min' = SubmitMin(frame_min, x, y, depth)
        /\ UNCHANGED frame_win
        /\ ev' = [Event("point", <<"point">>) EXCEPT
                     !.x = x, !.y = y, !.depth = depth, !.stored = zbuffer[Index(x, y)],
                     !.accepted = IF DepthTest(depth, zbuffer[Index(x, y)]) THEN 1 ELSE 0]
        /\ UNCHANGED <<width, height, background_color, current_color, emission_color,
                       SHADER_INDEX, iter>>
        /\ UNCHANGED mainvars
        /\ UNCHANGED <<call, rng, switches>>

ApiApplyEmission ==
    /\ buffer' = EmissionBuffer(buffer, zbuffer, emission_color)
    /\ frame_win' = GlowWin(frame_win)
    /\ ev' = Event("apply_emission", <<"apply_emission">>)
    /\ UNCHANGED <<width, height, zbuffer, background_color, current_color,
                   emission_color, SHADER_INDEX, frame_min, iter>>
    /\ UNCHANGED mainvars
    /\ UNCHANGED <<call, rng, switches>>

\* Pixels whose colour or depth a clear has to reset.
Dirty == Cardinality({p \in Pixels : buffer[p] # background_color \/ zbuffer[p] # FarDepth})

ApiClear ==
    /\ buffer' = ClearBuffer
    /\ zbuffer' = ClearZBuffer
    /\ frame_min' = [p \in Pixels |-> FarDepth]
    /\ frame_win' = [p \in Pixels |-> NoWinner]
    /\ ev' = [Event("clear", <<"clear">>) EXCEPT !.dirty = Dirty]
    /\ UNCHANGED <<width, height, background_color, current_color, emission_color,
                   SHADER_INDEX, iter>>
    /\ UNCHANGED mainvars
    /\ UNCHANGED <<call, rng, switches>>

ApiSwitchShader ==
    /\ switches < MaxSwitches
    /\ SHADER_INDEX' = switch_shader(SHADER_INDEX)
    /\ switches' = switches + 1
    /\ ev' = Event("switch_shader", <<>>)
    /\ UNCHANGED fbvars
    /\ UNCHANGED <<frame_min, frame_win, iter>>
    /\ UNCHANGED mainvars
    /\ UNCHANGED <<call, rng>>

ApiNext ==
    \/ ApiSetBackgroundColor
    \/ ApiSetCurrentColor
    \/ ApiSetEmissionColor
    \/ ApiPoint
    \/ ApiApplyEmission
    \/ ApiClear
    \/ ApiSwitchShader

ApiSpec == Init /\ [][ApiNext]_vars

(***************************************************************************)
(* main.rs: fragment processing of the render functions.                   *)
(***************************************************************************)
\* `as usize` of an f32: negative values saturate to 0.
AsUsize(v) == IF v < 0 THEN 0 ELSE v

\* `as isize` of an f32 that holds an integer.
AsIsize(v) == v

\* The shader each render function applies to its fragments.
ShaderOf_VenusByIndex(fn) ==
    CASE fn \in {"render", "render_venus"} -> ShaderName(SHADER_INDEX)
      [] fn = "render_sol" -> "emissive"
      [] fn = "render_jupiter" -> "jupiter"
      [] fn = "render_saturn" -> "saturn"
      [] fn = "render_mars" -> "mars"
      [] fn = "render_earth" -> "earth"
      [] fn = "render_uranus" -> "uranus"
      [] fn = "render_neptune" -> "neptune"

ShaderOf(fn) ==
    CASE fn = "render" -> ShaderName(SHADER_INDEX)
      [] fn = "render_sol" -> "emissive"
      [] fn = "render_venus" -> "venus"
      [] fn = "render_jupiter" -> "jupiter"
      [] fn = "render_saturn" -> "saturn"
      [] fn = "render_mars" -> "mars"
      [] fn = "render_earth" -> "earth"
      [] fn = "render_uranus" -> "uranus"
      [] fn = "render_neptune" -> "neptune"

PlanetFns == {"render_venus", "render_jupiter", "render_saturn", "render_mars",
              "render_earth", "render_uranus", "render_neptune"}

RenderFns == {"render", "render_sol"} \cup PlanetFns

\* Fragments the rasterizer hands over: pixel coordinates are non-negative and
\* reach one column and one row past the frame.
Fragments == [x : 0..width, y : 0..height, depth : Depths]

\* Of these, the nearest and the farthest.
ExtremeFragments == {f \in Fragments : f.depth \in {0, MaxDepth}}

\* `if x < framebuffer.width && y < framebuffer.height` of the render functions.
FragmentVisible_NoCheck(x, y) == x < width

FragmentVisible(x, y) == x < width /\ y < height

\* The calls one fragment makes: set_current_color, for the sun
\* set_emission_color, then point.
FragmentCalls(fn) ==
    IF fn = "render_sol"
    THEN <<"set_current_color", "set_emission_color", "point">>
    ELSE <<"set_current_color", "point">>

\* The draw colour point finds when a fragment shaded with colour c is
\* written: set_current_color(color) is the statement right before point.
ColorAtPoint_Stale(c) == current_color

ColorAtPoint(c) == c

\* One iteration of `for fragment in fragments` of render function fn, on a
\* fragment f whose shaded colour is c.
ProcessFragment(fn, f, c) ==
    LET x == AsUsize(f.x)
        y == AsUsize(f.y)
    IN  IF FragmentVisible(x, y)
        THEN /\ current_color' = c
             /\ emission_color' = IF fn = "render_sol" THEN SunEmission ELSE emission_color
             /\ buffer' = IF InBounds(x, y)
                          THEN PointBuffer(buffer, zbuffer, ColorAtPoint(c), x, y, f.depth)
                          ELSE buffer
             /\ zbuffer' = IF InBounds(x, y)
                           THEN PointZBuffer(buffer, zbuffer, ColorAtPoint(c), x, y, f.depth)
                           ELSE zbuffer
             /\ frame_min' = IF InBounds(x, y)
                             THEN SubmitMin(frame_min, x, y, f.depth)
                             ELSE frame_min
             /\ frame_win' = IF InBounds(x, y)
                             THEN SubmitWin(frame_win, zbuffer, c, x, y, f.depth)
                             ELSE frame_win
             /\ ev' = [Event(fn, FragmentCalls(fn)) EXCEPT
                          !.color = c,
                          !.drawn = ColorAtPoint(c),
                          !.inside = InBounds(f.x, f.y),
                          !.shader = ShaderOf(fn),
                          !.accepted = IF InBounds(x, y) /\ DepthTest(f.depth, zbuffer[Index(x, y)])
                                       THEN 1 ELSE 0,
                          !.stray = IF InBounds(x, y) THEN 0 ELSE Len(FragmentCalls(fn))]
             /\ UNCHANGED <<width, height, background_color>>
        ELSE /\ ev' = [Event(fn, <<>>) EXCEPT !.inside = InBounds(f.x, f.y)]
             /\ UNCHANGED fbvars
             /\ UNCHANGED <<frame_min, frame_win>>

(***************************************************************************)
(* render_point: a filled disc of white points around a position.          *)
(***************************************************************************)
\* The k-th (dx, dy) of the two nested loops over -radius..=radius.
OffsetDx(k, radius) == (k \div (2 * radius + 1)) - radius

OffsetDy(k, radius) == (k % (2 * radius + 1)) - radius

\* `px >= 0 && py >= 0 && px < width && py < height`.
PointVisible(px, py) == px >= 0 /\ py >= 0 /\ px < width /\ py < height

\* The loops of render_point from offset k on; st holds the buffers, the
\* history of least depths, the calls made, the writes accepted, the calls
\* made for pixels outside the frame and the offsets skipped so far.
RECURSIVE RenderPointFrom(_, _, _, _, _, _)
RenderPointFrom(k, st, x, y, z, radius) ==
    IF k >= (2 * radius + 1) * (2 * radius + 1)
    THEN st
    ELSE LET dx == OffsetDx(k, radius)
             dy == OffsetDy(k, radius)
             px == x + dx
             py == y + dy
             disc == dx * dx + dy * dy <= radius * radius
             hit == disc /\ PointVisible(px, py)
             ok == hit /\ InBounds(px, py)
             nx == IF ~hit
                   THEN [st EXCEPT !.skipped = IF disc THEN @ + 1 ELSE @]
                   ELSE [b |-> IF ok THEN PointBuffer(st.b, st.z, White, px, py, z) ELSE st.b,
                         z |-> IF ok THEN PointZBuffer(st.b, st.z, White, px, py, z) ELSE st.z,
                         m |-> IF ok THEN SubmitMin(st.m, px, py, z) ELSE st.m,
                         w |-> IF ok
                               THEN SubmitWin(st.w, st.z, White, px, py, z)
                               ELSE st.w,
                         calls |-> st.calls \o <<"set_current_color", "point">>,
                         accepted |-> IF ok /\ DepthTest(z, st.z[Index(px, py)])
                                      THEN st.accepted + 1 ELSE st.accepted,
                         stray |-> IF ok THEN st.stray ELSE st.stray + 2,
                         skipped |-> st.skipped]
         IN  RenderPointFrom(k + 1, nx, x, y, z, radius)

render_point(position, radius) ==
    \E st \in {RenderPointFrom(0, [b |-> buffer, z |-> zbuffer, m |-> frame_min,
                                   w |-> frame_win,
                                   calls |-> <<>>, accepted |-> 0, stray |-> 0,
                                   skipped |-> 0],
                               AsIsize(position.x), AsIsize(position.y), position.z, radius)} :
        /\ buffer' = st.b
        /\ zbuffer' = st.z
        /\ frame_min' = st.m
        /\ frame_win' = st.w
        /\ current_color' = IF st.calls = <<>> THEN current_color ELSE White
        /\ ev' = [Event("render_point", st.calls) EXCEPT
                     !.inside = (st.skipped = 0),
                     !.accepted = st.accepted,
                     !.stray = st.stray]
        /\ UNCHANGED <<width, height, background_color, emission_color>>

(***************************************************************************)
(* RenderSpec: the render functions, called on any fragment, and           *)
(* render_point, called on the corners of the frame, where its disc        *)
(* reaches pixels to the left of, above, right of and below the frame.     *)
(***************************************************************************)
CallRender ==
    \E f \in Fragments, c \in ShadedColors :
        /\ ProcessFragment("render", f, c)
        /\ UNCHANGED <<SHADER_INDEX, iter>>
        /\ UNCHANGED mainvars
        /\ UNCHANGED <<call, rng, switches>>

CallRenderSol ==
    \E f \in ExtremeFragments, c \in {SunColor} :
        /\ ProcessFragment("render_sol", f, c)
        /\ UNCHANGED <<SHADER_INDEX, iter>>
        /\ UNCHANGED mainvars
        /\ UNCHANGED <<call, rng, switches>>

CallRenderPlanet ==
    \E fn \in PlanetFns, f \in ExtremeFragments, c \in {White} :
        /\ ProcessFragment(fn, f, c)
        /\ UNCHANGED <<SHADER_INDEX, iter>>
        /\ UNCHANGED mainvars
        /\ UNCHANGED <<call, rng, switches>>

CallRenderPoint ==
    \E x \in {0, width - 1}, y \in {0, height - 1}, z \in {0, MaxDepth},
       radius \in 0..MaxRadius :
        /\ render_point([x |-> x, y |-> y, z |-> z], radius)
        /\ UNCHANGED <<SHADER_INDEX, iter>>
        /\ UNCHANGED mainvars
        /\ UNCHANGED <<call, rng, switches>>

RenderNext ==
    \/ CallRender
    \/ CallRenderSol
    \/ CallRenderPlanet
    \/ CallRenderPoint
    \/ ApiClear

RenderSpec == Init /\ [][RenderNext]_vars

(***************************************************************************)
(* main.rs: the frame loop.                                                *)
(***************************************************************************)
Statement(kind, fn, name) == [kind |-> kind, fn |-> fn, object |-> name]

\* The body of `while window.is_open()` after the key checks and `time += 1`,
\* in program order.
FrameBody_ClearAfterSun ==
    << Statement("set_sun_color", "none", "sun"),
       Statement("render", "render_sol", "sun"),
       Statement("clear", "none", "none"),
       Statement("apply_emission", "none", "sun"),
       Statement("render", "render", "mercury"),
       Statement("trail", "render", "mercury_trail"),
       Statement("render", "render_venus", "venus"),
       Statement("trail", "render", "venus_trail"),
       Statement("render", "render_earth", "earth"),
       Statement("render", "render_mars", "mars"),
       Statement("render", "render_jupiter", "jupiter"),
       Statement("render", "render_saturn", "saturn"),
       Statement("render", "render_uranus", "uranus"),
       Statement("render", "render_neptune", "neptune"),
       Statement("render", "render", "spaceship"),
       Statement("render", "render", "navecita"),
       Statement("present", "none", "none") >>

FrameBody_PresentBeforeShips ==
    << Statement("clear", "none", "none"),
       Statement("set_sun_color", "none", "sun"),
       Statement("render", "render_sol", "sun"),
       Statement("apply_emission", "none", "sun"),
       Statement("render", "render", "mercury"),
       Statement("trail", "render", "mercury_trail"),
       Statement("render", "render_venus", "venus"),
       Statement("trail", "render", "venus_trail"),
       Statement("render", "render_earth", "earth"),
       Statement("render", "render_mars", "mars"),
       Statement("render", "render_jupiter", "jupiter"),
       Statement("render", "render_saturn", "saturn"),
       Statement("render", "render_uranus", "uranus"),
       Statement("render", "render_neptune", "neptune"),
       Statement("present", "none", "none"),
       Statement("render", "render", "spaceship"),
       Statement("render", "render", "navecita") >>

FrameBody_EmissionAfterMercury ==
    << Statement("clear", "none", "none"),
       Statement("set_sun_color", "none", "sun"),
       Statement("render", "render_sol", "sun"),
       Statement("render", "render", "mercury"),
       Statement("apply_emission", "none", "sun"),
       Statement("trail", "render", "mercury_trail"),
       Statement("render", "render_venus", "venus"),
       Statement("trail", "render", "venus_trail"),
       Statement("render", "render_earth", "earth"),
       Statement("render", "render_mars", "mars"),
       Statement("render", "render_jupiter", "jupiter"),
       Statement("render", "render_saturn", "saturn"),
       Statement("render", "render_uranus", "uranus"),
       Statement("render", "render_neptune", "neptune"),
       Statement("render", "render", "spaceship"),
       Statement("render", "render", "navecita"),
       Statement("present", "none", "none") >>

FrameBody_SwitchAfterMercury ==
    << Statement("clear", "none", "none"),
       Statement("set_sun_color", "none", "sun"),
       Statement("render", "render_sol", "sun"),
       Statement("apply_emission", "none", "sun"),
       Statement("render", "render", "mercury"),
       Statement("space", "none", "none"),
       Statement("trail", "render", "mercury_trail"),
       Statement("render", "render_venus", "venus"),
       Statement("trail", "render", "venus_trail"),
       Statement("render", "render_earth", "earth"),
       Statement("render", "render_mars", "mars"),
       Statement("render", "render_jupiter", "jupiter"),
       Statement("render", "render_saturn", "saturn"),
       Statement("render", "render_uranus", "uranus"),
       Statement("render", "render_neptune", "neptune"),
       Statement("render", "render", "spaceship"),
       Statement("render", "render", "navecita"),
       Statement("present", "none", "none") >>

FrameBody ==
    << Statement("clear", "none", "none"),
       Statement("set_sun_color", "none", "sun"),
       Statement("render", "render_sol", "sun"),
       Statement("apply_emission", "none", "sun"),
       Statement("render", "render", "mercury"),
       Statement("trail", "render", "mercury_trail"),
       Statement("render", "render_venus", "venus"),
       Statement("trail", "render", "venus_trail"),
       Statement("render", "render_earth", "earth"),
       Statement("render", "render_mars", "mars"),
       Statement("render", "render_jupiter", "jupiter"),
       Statement("render", "render_saturn", "saturn"),
       Statement("render", "render_uranus", "uranus"),
       Statement("render", "render_neptune", "neptune"),
       Statement("render", "render", "spaceship"),
       Statement("render", "render", "navecita"),
       Statement("present", "none", "none") >>

Current == FrameBody[stmt]

\* The object a render call draws: a body of the scene, or point i of a trail.
Object == <<Current.object, IF Current.kind = "trail" THEN trail_i ELSE 0>>

\* Uniforms { model_matrix, view_matrix, projection_matrix, viewport_matrix,
\* time, noise }: the frame counter is the field the model keeps.
MakeUniforms_StaleTrail(t, object) ==
    [time |-> IF object[1] = "venus_trail" THEN t - 1 ELSE t, object |-> object]

MakeUniforms(t, object) == [time |-> t, object |-> object]

\* `time += 1`.
NextTime(t) == t + 1

\* Fragments the frame loop's render calls process: on the first pixel of the
\* frame, or past its last column and row.
MainFragments ==
    {f \in Fragments : (f.x = 0 /\ f.y = 0) \/ (f.x = width /\ f.y = height)}

\* The statement after the current one; the loop starts over after the last.
Advance ==
    IF stmt = Len(FrameBody)
    THEN pc' = "while" /\ stmt' = 1
    ELSE pc' = "body" /\ stmt' = stmt + 1

\* `while window.is_open()`.
WhileOpen ==
    /\ pc = "while"
    /\ \E open \in (IF time < MaxFrames THEN BOOLEAN ELSE {FALSE}) :
           pc' = IF open THEN "escape" ELSE "done"
    /\ iter' = [NoIter EXCEPT !.time_at_head = time,
                              !.handed_off = iter.handed_off,
                              !.stale = iter.stale,
                              !.index_at_head = SHADER_INDEX]
    /\ ev' = Event("is_open", <<>>)
    /\ UNCHANGED fbvars
    /\ UNCHANGED <<SHADER_INDEX, stmt, trail_i, fragments, time, uniforms, frame_min, frame_win>>
    /\ UNCHANGED <<call, rng, switches>>

\* `if window.is_key_down(Key::Escape) { break; }`.
CheckEscape ==
    /\ pc = "escape"
    /\ \E down \in BOOLEAN :
           /\ pc' = IF down THEN "done" ELSE "space"
           /\ iter' = [iter EXCEPT !.escaped = down]
    /\ ev' = Event("is_key_down", <<>>)
    /\ UNCHANGED fbvars
    /\ UNCHANGED <<SHADER_INDEX, stmt, trail_i, fragments, time, uniforms, frame_min, frame_win>>
    /\ UNCHANGED <<call, rng, switches>>

\* Calls of switch_shader the key check makes when is_key_pressed returns
\* `pressed`.
SpaceSwitches_EveryFrame(pressed) == 1

SpaceSwitches(pressed) == IF pressed THEN 1 ELSE 0

\* `if window.is_key_pressed(Key::Space, KeyRepeat::No) { switch_shader(); }`,
\* at the head of the loop, or where the body holds the statement.
CheckSpace ==
    /\ \/ pc = "space" /\ pc' = "tick" /\ stmt' = stmt
       \/ pc = "body" /\ Current.kind = "space" /\ Advance
    /\ \E pressed \in BOOLEAN :
           /\ SHADER_INDEX' = IF SpaceSwitches(pressed) = 1
                               THEN switch_shader(SHADER_INDEX) ELSE SHADER_INDEX
           /\ switches' = switches + SpaceSwitches(pressed)
           /\ ev' = Event(IF pressed THEN "switch_shader" ELSE "is_key_pressed", <<>>)
           /\ iter' = [iter EXCEPT !.switches = @ + SpaceSwitches(pressed),
                                    !.pressed = pressed]
    /\ UNCHANGED fbvars
    /\ UNCHANGED <<trail_i, fragments, time, uniforms, frame_min, frame_win>>
    /\ UNCHANGED <<call, rng>>

\* `time += 1; handle_input(&window, &mut camera);`.
Tick ==
    /\ pc = "tick"
    /\ time' = NextTime(time)
    /\ pc' = "body"
    /\ stmt' = 1
    /\ ev' = Event("tick", <<>>)
    /\ UNCHANGED fbvars
    /\ UNCHANGED <<SHADER_INDEX, trail_i, fragments, uniforms, frame_min, frame_win, iter>>
    /\ UNCHANGED <<call, rng, switches>>

\* `framebuffer.clear();`.
MainClear ==
    /\ pc = "body" /\ Current.kind = "clear"
    /\ buffer' = ClearBuffer
    /\ zbuffer' = ClearZBuffer
    /\ frame_min' = [p \in Pixels |-> FarDepth]
    /\ frame_win' = [p \in Pixels |-> NoWinner]
    /\ ev' = [Event("clear", <<"clear">>) EXCEPT !.dirty = Dirty]
    /\ iter' = [iter EXCEPT !.clears = @ + 1, !.handed_off = FALSE]
    /\ Advance
    /\ UNCHANGED <<width, height, background_color, current_color, emission_color,
                   SHADER_INDEX, trail_i, fragments, time, uniforms>>
    /\ UNCHANGED <<call, rng, switches>>

\* `framebuffer.set_current_color(0xFFDD44);`.
MainSetSunColor ==
    /\ pc = "body" /\ Current.kind = "set_sun_color"
    /\ current_color' = SunColor
    /\ ev' = Event("set_current_color", <<"set_current_color">>)
    /\ iter' = NoteCalls(iter, ev'.calls)
    /\ Advance
    /\ UNCHANGED <<width, height, buffer, zbuffer, background_color, emission_color,
                   SHADER_INDEX, trail_i, fragments, time, uniforms, frame_min, frame_win>>
    /\ UNCHANGED <<call, rng, switches>>

\* The Uniforms of an object are built and its render function is called: the
\* vertex shader, primitive assembly and the rasterizer leave a list of fragments.
MainCallRender ==
    /\ pc = "body" /\ Current.kind \in {"render", "trail"}
    /\ uniforms' = MakeUniforms(time, Object)
    /\ \E n \in 0..MaxFragments : fragments' = n
    /\ pc' = "fragments"
    /\ ev' = Event("call", <<>>)
    /\ iter' = [iter EXCEPT !.begun = @ \cup {Object}, !.times = @ \cup {uniforms'.time}]
    /\ UNCHANGED fbvars
    /\ UNCHANGED <<SHADER_INDEX, stmt, trail_i, time, frame_min, frame_win>>
    /\ UNCHANGED <<call, rng, switches>>

\* render: one fragment, shaded by fragment_shader.
MainRender ==
    /\ pc = "fragments" /\ fragments > 0 /\ Current.fn = "render"
    /\ \E f \in MainFragments, c \in ShadedColors : ProcessFragment("render", f, c)
    /\ fragments' = fragments - 1
    /\ iter' = [NoteCalls(iter, ev'.calls) EXCEPT
                    !.dispatched = IF ev'.calls # <<>>
                                   THEN @ \cup {<<Current.object, SHADER_INDEX>>} ELSE @]
    /\ UNCHANGED <<SHADER_INDEX, pc, stmt, trail_i, time, uniforms>>
    /\ UNCHANGED <<call, rng, switches>>

\* render_sol: one fragment, shaded by fragment_shader2.
MainRenderSol ==
    /\ pc = "fragments" /\ fragments > 0 /\ Current.fn = "render_sol"
    /\ \E f \in MainFragments, c \in ShadedColors : ProcessFragment("render_sol", f, c)
    /\ fragments' = fragments - 1
    /\ iter' = NoteCalls(iter, ev'.calls)
    /\ UNCHANGED <<SHADER_INDEX, pc, stmt, trail_i, time, uniforms>>
    /\ UNCHANGED <<call, rng, switches>>

\* render_venus .. render_neptune: one fragment, shaded by the planet's shader.
MainRenderPlanet ==
    /\ pc = "fragments" /\ fragments > 0 /\ Current.fn \in PlanetFns
    /\ \E f \in MainFragments, c \in ShadedColors : ProcessFragment(Current.fn, f, c)
    /\ fragments' = fragments - 1
    /\ iter' = NoteCalls(iter, ev'.calls)
    /\ UNCHANGED <<SHADER_INDEX, pc, stmt, trail_i, time, uniforms>>
    /\ UNCHANGED <<call, rng, switches>>

\* The render call returns; a trail loop goes on to its next point.
MainReturn ==
    /\ pc = "fragments" /\ fragments = 0
    /\ iter' = [iter EXCEPT !.ended = @ \cup {Object}]
    /\ ev' = Event("return", <<>>)
    /\ IF Current.kind = "trail" /\ trail_i + 1 < TrailLength
       THEN pc' = "body" /\ trail_i' = trail_i + 1 /\ stmt' = stmt
       ELSE trail_i' = 0 /\ Advance
    /\ UNCHANGED fbvars
    /\ UNCHANGED <<SHADER_INDEX, fragments, time, uniforms, frame_min, frame_win>>
    /\ UNCHANGED <<call, rng, switches>>

\* `framebuffer.apply_emission();`.
MainApplyEmission ==
    /\ pc = "body" /\ Current.kind = "apply_emission"
    /\ buffer' = EmissionBuffer(buffer, zbuffer, emission_color)
    /\ ev' = Event("apply_emission", <<"apply_emission">>)
    /\ iter' = [NoteCalls(iter, ev'.calls) EXCEPT !.emissions = @ + 1,
                                                  !.emitted_begun = iter.begun,
                                                  !.emitted_ended = iter.ended]
    /\ Advance
    /\ UNCHANGED <<width, height, zbuffer, background_color, current_color,
                   emission_color, SHADER_INDEX, trail_i, fragments, time, uniforms,
                   frame_min>>
    /\ frame_win' = GlowWin(frame_win)
    /\ UNCHANGED <<call, rng, switches>>

\* `window.update_with_buffer(&framebuffer.buffer, ..).unwrap(); sleep(frame_delay);`.
Present ==
    /\ pc = "body" /\ Current.kind = "present"
    /\ ev' = Event("update_with_buffer", <<>>)
    /\ iter' = [iter EXCEPT !.presents = @ + 1, !.handed_off = TRUE]
    /\ Advance
    /\ UNCHANGED fbvars
    /\ UNCHANGED <<SHADER_INDEX, trail_i, fragments, time, uniforms, frame_min, frame_win>>
    /\ UNCHANGED <<call, rng, switches>>

Next ==
    \/ WhileOpen
    \/ CheckEscape
    \/ CheckSpace
    \/ Tick
    \/ MainClear
    \/ MainSetSunColor
    \/ MainCallRender
    \/ MainRender
    \/ MainRenderSol
    \/ MainRenderPlanet
    \/ MainReturn
    \/ MainApplyEmission
    \/ Present

Spec == Init /\ [][Next]_vars

(***************************************************************************)
(* shaders.rs: the fragment shaders.  Real numbers are kept in             *)
(* thousandths; a fragment's intensity i stands for i / IntensityScale.    *)
(***************************************************************************)
Abs(v) == IF v < 0 THEN -v ELSE v

Max(a, b) == IF a > b THEN a ELSE b

\* f32::clamp.
Clamp(v, lo, hi) == Max(lo, Min(hi, v))

\* f32::sin of an angle in thousandths of a radian, in thousandths
\* (Bhaskara's approximation on each half period).
HalfSin(r) == (16 * r * (3142 - r)) \div ((5 * 3142 * 3142 - 4 * r * (3142 - r)) \div 1000)

Sin(a) ==
    LET r == a % 6284
    IN  IF r < 3142 THEN HalfSin(r) ELSE -HalfSin(r - 3142)

\* f32::cos.
Cos(a) == Sin(a + 1571)

\* `(v.sin() * 0.5 + 0.5).clamp(0.0, 1.0)`.
Wave(s) == Clamp((s + 1000) \div 2, 0, 1000)

\* FastNoiseLite::with_seed(1337) with OpenSimplex2: get_noise_2d and
\* get_noise_3d are fixed functions of the seed and the coordinates, with
\* values in -1..1.
Noise2D(x, y) == ((((x % 2001) * 73 + (y % 2001) * 179 + 1337) * 31) % 2001) - 1000

Noise3D(x, y, z) ==
    ((((x % 2001) * 73 + (y % 2001) * 179 + (z % 2001) * 283 + 1337) * 31) % 2001) - 1000

\* StdRng::seed_from_u64 and one step of the generator.
seed_from_u64(seed) == (seed * 7919 + 13) % 65536

NextRng(state) == (state * 75 + 74) % 65537

\* rng.gen_range(0..=100) on a generator that has made its step.
GenRange100(state) == state % 101

\* Color::new(r, g, b).
Color(r, g, b) == <<r, g, b>>

\* Color * f32, for a factor of num / den; channels saturate.
ScaleColor(c, num, den) ==
    << Clamp((c[1] * num) \div den, 0, 255),
       Clamp((c[2] * num) \div den, 0, 255),
       Clamp((c[3] * num) \div den, 0, 255) >>

\* Color::lerp(other, t), t in thousandths.
Lerp(a, b, t) ==
    LET u == Clamp(t, 0, 1000)
    IN  << Clamp(a[1] + ((b[1] - a[1]) * u) \div 1000, 0, 255),
           Clamp(a[2] + ((b[2] - a[2]) * u) \div 1000, 0, 255),
           Clamp(a[3] + ((b[3] - a[3]) * u) \div 1000, 0, 255) >>

\* `Color * fragment.intensity`, the last step of the index-dispatched shaders.
TimesIntensity(c, fragment) == ScaleColor(c, fragment.intensity, IntensityScale)

\* The shading position of a fragment, in thousandths.
PosX(fragment) == fragment.vertex_position[1] * 1000

PosY(fragment) == fragment.vertex_position[2] * 1000

\* emissive_shader: the colours it blends, and the blend.
EmissivePattern(fragment, unif) == Color(255, 223, 0)

emissive_shader(fragment, unif) ==
    LET emission == ScaleColor(Color(255, 255, 102), fragment.intensity * 2,
                                     IntensityScale)
    IN  Lerp(EmissivePattern(fragment, unif), emission, 900)

\* earth_shader.
earth_shader(fragment, unif) ==
    LET t == unif.time * 10
        band_pattern == Wave(Sin(PosY(fragment) * 10 + t))
    IN  IF band_pattern < 400 THEN Color(0, 0, 255)
        ELSE IF band_pattern < 700 THEN Color(34, 139, 34)
        ELSE Color(255, 255, 255)

\* uranus_shader.
uranus_shader(fragment, unif) ==
    LET t == unif.time * 20
        band_pattern == Wave(Sin(PosY(fragment) * 10 + t))
    IN  IF band_pattern < 500 THEN Color(0, 255, 255) ELSE Color(0, 128, 128)

\* neptune_shader.
neptune_shader(fragment, unif) ==
    LET t == unif.time * 20
        band_pattern == Wave(Sin(PosY(fragment) * 10 + t))
    IN  IF band_pattern < 500 THEN Color(0, 0, 255) ELSE Color(0, 0, 139)

\* venus_shader.
venus_shader(fragment, unif) ==
    LET t == unif.time * 10
        wave_pattern_x == Wave(Sin(PosX(fragment) * 3 + t))
        wave_pattern_y == Wave(Cos(PosY(fragment) * 3 + t))
        base_color == Lerp(Color(255, 228, 181), Color(220, 220, 220), wave_pattern_x)
    IN  Lerp(base_color, Color(255, 250, 240), wave_pattern_y)

\* The three bands jupiter_shader and saturn_shader share.
BrownBands(light, band_pattern) ==
    IF band_pattern < 300 THEN light
    ELSE IF band_pattern < 600 THEN Color(245, 245, 245)
    ELSE Color(139, 69, 19)

\* jupiter_shader.
jupiter_shader(fragment, unif) ==
    LET t == unif.time * 20
        band_pattern == Wave(Sin(PosY(fragment) * 10 + t))
        base_color == BrownBands(Color(210, 180, 140), band_pattern)
        red_spot_x == ((PosX(fragment) - 300) * (PosX(fragment) - 300)) \div 100
        red_spot_y == ((PosY(fragment) + 200) * (PosY(fragment) + 200)) \div 200
        red_spot_intensity == 1000 - Clamp(red_spot_x + red_spot_y, 0, 1000)
    IN  IF red_spot_intensity > 700
        THEN Lerp(Color(255, 69, 0), base_color, red_spot_intensity)
        ELSE base_color

\* saturn_shader.
saturn_shader(fragment, unif) ==
    LET t == unif.time * 20
        band_pattern == Wave(Sin(PosY(fragment) * 10 + t))
        base_color == BrownBands(Color(205, 133, 63), band_pattern)
        ring_pattern == Clamp(Abs(PosY(fragment)) - 500, 0, 1000)
    IN  IF ring_pattern > 300 THEN Color(160, 160, 160) ELSE base_color

\* mars_shader.
mars_shader(fragment, unif) ==
    LET t == unif.time * 50
        band_pattern == Wave(Sin(PosY(fragment) * 10 + t))
        base_color == IF band_pattern < 500 THEN Color(204, 102, 51)
                      ELSE Color(139, 69, 19)
        rocky_pattern == Wave(Sin((PosX(fragment) * PosY(fragment)) \div 1000 + t))
    IN  IF rocky_pattern > 700 THEN Color(160, 82, 45) ELSE base_color

\* moon_shader.
MoonPattern(fragment, unif) ==
    LET t == unif.time * 100
        surface_noise == Noise2D(PosX(fragment) * 50 + t, PosY(fragment) * 50 + t)
    IN  IF surface_noise > 400 THEN Color(200, 200, 200) ELSE Color(150, 150, 150)

moon_shader(fragment, unif) ==
    TimesIntensity(MoonPattern(fragment, unif), fragment)

\* black_and_white: `seed = time as f32 * y * x`, `seed.abs() as u64`.
BlackAndWhiteSeed(fragment, unif) ==
    Abs(unif.time * fragment.vertex_position[2] * fragment.vertex_position[1])

\* The generator black_and_white draws from: a new one, made from the seed.
BlackAndWhiteRng_Shared(fragment, unif) == rng

BlackAndWhiteRng(fragment, unif) ==
    seed_from_u64(BlackAndWhiteSeed(fragment, unif))

BlackAndWhitePattern(fragment, unif) ==
    LET random_number == GenRange100(NextRng(BlackAndWhiteRng(fragment, unif)))
    IN  IF random_number < 50 THEN Color(0, 0, 0) ELSE Color(255, 255, 255)

black_and_white(fragment, unif) ==
    TimesIntensity(BlackAndWhitePattern(fragment, unif), fragment)

\* dalmata_shader.
DalmataPattern(fragment, unif) ==
    LET noise_value == Noise2D(PosX(fragment) * 100, PosY(fragment) * 100)
    IN  IF noise_value < 500 THEN Color(255, 255, 255) ELSE Color(0, 0, 0)

dalmata_shader(fragment, unif) ==
    TimesIntensity(DalmataPattern(fragment, unif), fragment)

\* cloud_shader.
CloudPattern(fragment, unif) ==
    LET t == unif.time * 500
        noise_value == Noise2D(PosX(fragment) * 100 + 100000 + t,
                               PosY(fragment) * 100 + 100000)
    IN  IF noise_value > 500 THEN Color(255, 255, 255) ELSE Color(30, 97, 145)

cloud_shader(fragment, unif) ==
    TimesIntensity(CloudPattern(fragment, unif), fragment)

\* cellular_shader.
CellularPattern(fragment, unif) ==
    LET cell_noise_value == Abs(Noise2D(PosX(fragment) * 30 + 50000,
                                        PosY(fragment) * 30 + 50000))
    IN  IF cell_noise_value < 150 THEN Color(85, 107, 47)
        ELSE IF cell_noise_value < 700 THEN Color(124, 252, 0)
        ELSE IF cell_noise_value < 750 THEN Color(34, 139, 34)
        ELSE Color(173, 255, 47)

cellular_shader_NoIntensity(fragment, unif) == CellularPattern(fragment, unif)

cellular_shader(fragment, unif) ==
    TimesIntensity(CellularPattern(fragment, unif), fragment)

\* lava_shader.
LavaPattern(fragment, unif) ==
    LET t == unif.time * 10
        pulsate == Sin((t * 2) \div 10) \div 2
        z == fragment.depth * 1000
        noise_value1 == Noise3D(PosX(fragment) * 1000, PosY(fragment) * 1000,
                                (z + pulsate) * 1000)
        noise_value2 == Noise3D((PosX(fragment) + 1000000) * 1000,
                                (PosY(fragment) + 1000000) * 1000,
                                (z + 1000000 + pulsate) * 1000)
        noise_value == (noise_value1 + noise_value2) \div 2
    IN  Lerp(Color(130, 20, 0), Color(255, 240, 0), noise_value)

lava_shader(fragment, unif) ==
    TimesIntensity(LavaPattern(fragment, unif), fragment)

\* The shader a name stands for.
Shade(name, fragment, unif) ==
    CASE name = "black_and_white" -> black_and_white(fragment, unif)
      [] name = "dalmata" -> dalmata_shader(fragment, unif)
      [] name = "cloud" -> cloud_shader(fragment, unif)
      [] name = "cellular" -> cellular_shader(fragment, unif)
      [] name = "lava" -> lava_shader(fragment, unif)
      [] name = "moon" -> moon_shader(fragment, unif)
      [] name = "emissive" -> emissive_shader(fragment, unif)
      [] name = "earth" -> earth_shader(fragment, unif)
      [] name = "uranus" -> uranus_shader(fragment, unif)
      [] name = "neptune" -> neptune_shader(fragment, unif)
      [] name = "venus" -> venus_shader(fragment, unif)
      [] name = "jupiter" -> jupiter_shader(fragment, unif)
      [] name = "saturn" -> saturn_shader(fragment, unif)
      [] name = "mars" -> mars_shader(fragment, unif)

\* The colour a shader has chosen before its last step, for the shaders that
\* have one; the others return the colour they chose.
Pattern(name, fragment, unif) ==
    CASE name = "black_and_white" -> BlackAndWhitePattern(fragment, unif)
      [] name = "dalmata" -> DalmataPattern(fragment, unif)
      [] name = "cloud" -> CloudPattern(fragment, unif)
      [] name = "cellular" -> CellularPattern(fragment, unif)
      [] name = "lava" -> LavaPattern(fragment, unif)
      [] name = "moon" -> MoonPattern(fragment, unif)
      [] name = "emissive" -> EmissivePattern(fragment, unif)
      [] OTHER -> Shade(name, fragment, unif)

\* fragment_shader: the match over SHADER_INDEX, read once.
fragment_shader(fragment, unif) == Shade(ShaderName(SHADER_INDEX), fragment, unif)

\* fragment_shader2.
fragment_shader2(fragment, unif) == emissive_shader(fragment, unif)

IndexShaders == {"black_and_white", "dalmata", "cloud", "cellular", "lava", "moon"}

PlanetShaders == {"earth", "uranus", "neptune", "venus", "jupiter", "saturn", "mars"}

(***************************************************************************)
(* ShadeSpec: the shaders, called on sample fragments, and switch_shader.   *)
(***************************************************************************)
\* Fragment { vertex_position, depth, intensity } as far as the shaders read it.
ShadePositions == {<<0, 0>>, <<1, 1>>, <<MaxCoord, -MaxCoord>>}

\* Unlit fragments and fragments lit by 1 / IntensityScale.
ShadeFragments ==
    [vertex_position : ShadePositions, depth : {MaxDepth}, intensity : {0, 1}]

\* Uniforms as far as the shaders read them: time, and the noise generator,
\* which is the same in every Uniforms.
ShadeUniforms == {MakeUniforms(t, <<"none", 0>>) : t \in {1, MaxFrames}}

\* The same fragment under full intensity.
FullyLit(fragment) == [fragment EXCEPT !.intensity = IntensityScale]

\* call after shader `name` has shaded f under u: the colour it returned, the
\* colour it had chosen before its last step, the colour it returns for the
\* fully lit fragment, and whether the call before was the same call, with no
\* switch_shader since, and what that one returned.
ShadeCall(op, name, f, u) ==
    LET again == /\ call.op = op
                 /\ call.shader = name
                 /\ call.fragment = f
                 /\ call.uniforms = u
                 /\ call.at = switches
    IN  [op |-> op, shader |-> name, fragment |-> f, uniforms |-> u, at |-> switches,
         index |-> SHADER_INDEX,
         color |-> Shade(name, f, u),
         pattern |-> Pattern(name, f, u),
         lit |-> Shade(name, FullyLit(f), u),
         repeat |-> again,
         previous |-> IF again THEN call.color ELSE <<>>]

\* The generator a shader leaves behind.
RngAfter(name, f, u) ==
    IF name = "black_and_white" THEN NextRng(BlackAndWhiteRng(f, u)) ELSE rng

CallFragmentShader ==
    \E f \in ShadeFragments, u \in ShadeUniforms :
        /\ call' = [ShadeCall("fragment_shader", ShaderName(SHADER_INDEX), f, u)
                        EXCEPT !.color = fragment_shader(f, u)]
        /\ rng' = RngAfter(ShaderName(SHADER_INDEX), f, u)
        /\ UNCHANGED <<SHADER_INDEX, switches, ev, frame_min, frame_win, iter>>
        /\ UNCHANGED fbvars
        /\ UNCHANGED mainvars

CallFragmentShader2 ==
    \E f \in ShadeFragments, u \in ShadeUniforms :
        /\ call' = [ShadeCall("fragment_shader2", "emissive", f, u)
                        EXCEPT !.color = fragment_shader2(f, u)]
        /\ UNCHANGED <<SHADER_INDEX, switches, rng, ev, frame_min, frame_win, iter>>
        /\ UNCHANGED fbvars
        /\ UNCHANGED mainvars

CallPlanetShader ==
    \E name \in PlanetShaders, f \in ShadeFragments, u \in ShadeUniforms :
        /\ call' = ShadeCall("planet_shader", name, f, u)
        /\ UNCHANGED <<SHADER_INDEX, switches, rng, ev, frame_min, frame_win, iter>>
        /\ UNCHANGED fbvars
        /\ UNCHANGED mainvars

ShadeNext ==
    \/ CallFragmentShader
    \/ CallFragmentShader2
    \/ CallPlanetShader
    \/ ApiSwitchShader

\* The shaders do not touch the framebuffer: one shape is enough.
ShadeInit == Init /\ width = 1 /\ height = 1

ShadeSpec == ShadeInit /\ [][ShadeNext]_vars

(***************************************************************************)
(* shaders.rs: the vertex shader.  Matrices and model-space vectors hold   *)
(* integers; what a division produces is a fraction n / d in lowest terms, *)
(* and NonFinite stands for the infinities and NaN a division by 0 gives.  *)
(***************************************************************************)
RECURSIVE Gcd(_, _)
Gcd(a, b) == IF b = 0 THEN a ELSE Gcd(b, a % b)

NonFinite == [n |-> 0, d |-> 0]

\* n / d.
Rat(n, d) ==
    IF d = 0 THEN NonFinite
    ELSE LET g == Gcd(Abs(n), Abs(d))
             s == IF d < 0 THEN -1 ELSE 1
         IN  [n |-> (s * n) \div g, d |-> (s * d) \div g]

FromInt(v) == [n |-> v, d |-> 1]

RAdd(a, b) ==
    IF a.d = 0 \/ b.d = 0 THEN NonFinite ELSE Rat(a.n * b.d + b.n * a.d, a.d * b.d)

RMul(a, b) ==
    IF a.d = 0 \/ b.d = 0 THEN NonFinite ELSE Rat(a.n * b.n, a.d * b.d)

\* A vector of integers as a vector of fractions.
RVec(v) == [k \in DOMAIN v |-> FromInt(v[k])]

\* Mat4 * Mat4 and Mat4 * Vec4.
MatMul(a, b) ==
    [i \in 1..4 |-> [j \in 1..4 |->
        a[i][1] * b[1][j] + a[i][2] * b[2][j] + a[i][3] * b[3][j] + a[i][4] * b[4][j]]]

MatVec(m, v) ==
    [i \in 1..4 |-> m[i][1] * v[1] + m[i][2] * v[2] + m[i][3] * v[3] + m[i][4] * v[4]]

\* Mat4 * Vec4 for a vector of fractions.
MatRVec(m, v) ==
    [i \in 1..4 |->
        RAdd(RAdd(RMul(FromInt(m[i][1]), v[1]), RMul(FromInt(m[i][2]), v[2])),
             RAdd(RMul(FromInt(m[i][3]), v[3]), RMul(FromInt(m[i][4]), v[4])))]

Identity4 == << <<1, 0, 0, 0>>, <<0, 1, 0, 0>>, <<0, 0, 1, 0>>, <<0, 0, 0, 1>> >>

Identity3 == << <<1, 0, 0>>, <<0, 1, 0>>, <<0, 0, 1>> >>

\* A matrix of integers as a matrix of fractions.
RMat3(m) == [i \in 1..3 |-> [j \in 1..3 |-> FromInt(m[i][j])]]

\* Mat3 of fractions * Vec3 of integers, and * Mat3 of integers.
RMat3Vec(m, v) ==
    [i \in 1..3 |->
        RAdd(RAdd(RMul(m[i][1], FromInt(v[1])), RMul(m[i][2], FromInt(v[2]))),
             RMul(m[i][3], FromInt(v[3])))]

RMat3Mul(a, b) ==
    [i \in 1..3 |-> [j \in 1..3 |->
        RAdd(RAdd(RMul(a[i][1], FromInt(b[1][j])), RMul(a[i][2], FromInt(b[2][j]))),
             RMul(a[i][3], FromInt(b[3][j])))]]

\* mat4_to_mat3: the upper left 3 x 3 block.
mat4_to_mat3(m) == [i \in 1..3 |-> [j \in 1..3 |-> m[i][j]]]

\* Mat3::transpose.
Transpose3(m) == [i \in 1..3 |-> [j \in 1..3 |-> m[j][i]]]

Det3(m) ==
      m[1][1] * (m[2][2] * m[3][3] - m[2][3] * m[3][2])
    - m[1][2] * (m[2][1] * m[3][3] - m[2][3] * m[3][1])
    + m[1][3] * (m[2][1] * m[3][2] - m[2][2] * m[3][1])

\* The cofactor of entry (i, j): rows and columns other than i and j, in
\* cyclic order.
Cofactor(m, i, j) ==
    LET r1 == (i % 3) + 1
        r2 == ((i + 1) % 3) + 1
        c1 == (j % 3) + 1
        c2 == ((j + 1) % 3) + 1
    IN  m[r1][c1] * m[r2][c2] - m[r1][c2] * m[r2][c1]

\* Mat3::try_inverse: None when the determinant is 0.
try_inverse(m) ==
    IF Det3(m) = 0
    THEN [some |-> FALSE, value |-> RMat3(Identity3)]
    ELSE [some |-> TRUE,
          value |-> [i \in 1..3 |-> [j \in 1..3 |-> Rat(Cofactor(m, j, i), Det3(m))]]]

\* create_model_matrix(translation, scale, rotation) for a rotation of
\* `turns` quarter turns about z, whose sine and cosine are 0, 1 or -1.
QuarterCos(turns) == CASE turns % 4 = 0 -> 1 [] turns % 4 = 2 -> -1 [] OTHER -> 0

QuarterSin(turns) == CASE turns % 4 = 1 -> 1 [] turns % 4 = 3 -> -1 [] OTHER -> 0

create_model_matrix(translation, scale, turns) ==
    LET rotation_matrix == << <<QuarterCos(turns), -QuarterSin(turns), 0, 0>>,
                              <<QuarterSin(turns), QuarterCos(turns), 0, 0>>,
                              <<0, 0, 1, 0>>,
                              <<0, 0, 0, 1>> >>
        transform_matrix == << <<scale, 0, 0, translation[1]>>,
                               <<0, scale, 0, translation[2]>>,
                               <<0, 0, scale, translation[3]>>,
                               <<0, 0, 0, 1>> >>
    IN  MatMul(transform_matrix, rotation_matrix)

\* create_viewport_matrix(width, height) for even sizes.
create_viewport_matrix(w, h) ==
    << <<w \div 2, 0, 0, w \div 2>>,
       <<0, -(h \div 2), 0, h \div 2>>,
       <<0, 0, 1, 0>>,
       <<0, 0, 0, 1>> >>

\* A view matrix that moves the scene one unit away from the camera.
ViewBack == << <<1, 0, 0, 0>>, <<0, 1, 0, 0>>, <<0, 0, 1, -1>>, <<0, 0, 0, 1>> >>

\* A projection whose clip-space w is -z, as that of perspective().
ProjectW == << <<1, 0, 0, 0>>, <<0, 1, 0, 0>>, <<0, 0, 1, 0>>, <<0, 0, -1, 0>> >>

\* `Vec4::new(position.x, position.y, position.z, 1.0)`.
Homogenize_W0(p) == <<p[1], p[2], p[3], 0>>

Homogenize(p) == <<p[1], p[2], p[3], 1>>

\* `projection_matrix * view_matrix * model_matrix * position`.
ClipPosition(vertex, unif) ==
    MatVec(MatMul(MatMul(unif.projection_matrix, unif.view_matrix), unif.model_matrix),
           Homogenize(vertex.position))

\* The perspective divide, re-homogenized.
PerspectiveDivide(transformed) ==
    << Rat(transformed[1], transformed[4]),
       Rat(transformed[2], transformed[4]),
       Rat(transformed[3], transformed[4]),
       FromInt(1) >>

\* `model_mat3.transpose().try_inverse().unwrap_or(Mat3::identity())`.
NormalMatrix_NoFallback(model_matrix) ==
    LET inverse == try_inverse(Transpose3(mat4_to_mat3(model_matrix)))
    IN  IF inverse.some THEN inverse.value
        ELSE [i \in 1..3 |-> [j \in 1..3 |-> FromInt(0)]]

NormalMatrix(model_matrix) ==
    LET inverse == try_inverse(Transpose3(mat4_to_mat3(model_matrix)))
    IN  IF inverse.some THEN inverse.value ELSE RMat3(Identity3)

vertex_shader_MovesPosition(vertex, unif) ==
    LET screen_position ==
            MatRVec(unif.viewport_matrix, PerspectiveDivide(ClipPosition(vertex, unif)))
        clip == ClipPosition(vertex, unif)
    IN  [position |-> <<clip[1], clip[2], clip[3]>>,
         normal |-> vertex.normal,
         tex_coords |-> vertex.tex_coords,
         color |-> vertex.color,
         transformed_position |->
             <<screen_position[1], screen_position[2], screen_position[3]>>,
         transformed_normal |-> RMat3Vec(NormalMatrix(unif.model_matrix), vertex.normal)]

vertex_shader(vertex, unif) ==
    LET screen_position ==
            MatRVec(unif.viewport_matrix, PerspectiveDivide(ClipPosition(vertex, unif)))
    IN  [position |-> vertex.position,
         normal |-> vertex.normal,
         tex_coords |-> vertex.tex_coords,
         color |-> vertex.color,
         transformed_position |->
             <<screen_position[1], screen_position[2], screen_position[3]>>,
         transformed_normal |-> RMat3Vec(NormalMatrix(unif.model_matrix), vertex.normal)]

(***************************************************************************)
(* main.rs: the vertex loop and primitive assembly of render.              *)
(***************************************************************************)
\* `if i + 2 < transformed_vertices.len()`.
AssembleGuard_NoCheck(i, len) == TRUE

AssembleGuard(i, len) == i + 2 < len

\* transformed_vertices[i], i counted from 0; an index past the end panics.
OutOfRange == [panic |-> "index out of bounds"]

At(tv, i) == IF i < Len(tv) THEN tv[i + 1] ELSE OutOfRange

\* `for vertex in vertex_array { transformed_vertices.push(vertex_shader(..)) }`.
TransformVertices(vertex_array, unif) ==
    [k \in 1..Len(vertex_array) |-> vertex_shader(vertex_array[k], unif)]

\* `for i in (0..len).step_by(3)` from index i on: the triangles pushed and
\* the indices read so far.
RECURSIVE AssembleFrom(_, _, _)
AssembleFrom(i, tv, acc) ==
    IF i >= Len(tv)
    THEN acc
    ELSE IF AssembleGuard(i, Len(tv))
         THEN AssembleFrom(i + 3, tv,
                  [triangles |-> Append(acc.triangles,
                                        <<At(tv, i), At(tv, i + 1), At(tv, i + 2)>>),
                   reads |-> acc.reads \cup {i, i + 1, i + 2}])
         ELSE AssembleFrom(i + 3, tv, acc)

PrimitiveAssembly(tv) == AssembleFrom(0, tv, [triangles |-> <<>>, reads |-> {}])

(***************************************************************************)
(* VertexSpec: one call of vertex_shader on a vertex, or of the vertex     *)
(* loop and primitive assembly of render on a vertex array.                *)
(***************************************************************************)
Coords == -MaxCoord..MaxCoord

\* Vertex as the mesh loader leaves it: the transformed fields repeat the
\* model-space ones.
MakeVertex(position, normal) ==
    [position |-> position, normal |-> normal, tex_coords |-> <<0, 1>>,
     color |-> Color(0, 0, 0),
     transformed_position |-> RVec(position), transformed_normal |-> RVec(normal)]

Normals == {<<0, 0, 1>>, <<0, 1, 0>>, <<1, 1, 0>>}

Vertices == {MakeVertex(<<x, y, z>>, n) : x \in Coords, y \in Coords, z \in Coords,
                                           n \in Normals}

\* Model matrices: scales 0..MaxScale, the origin or one unit along x, none or
\* one quarter turn.
ModelMatrices ==
    {create_model_matrix(<<tx, 0, 0>>, scale, turns) :
        tx \in {0, 1}, scale \in 0..MaxScale, turns \in {0, 1}}

\* Uniforms { model_matrix, view_matrix, projection_matrix, viewport_matrix,
\* time, noise } as far as the vertex shader reads them.
VertexUniforms ==
    [model_matrix : ModelMatrices,
     view_matrix : {Identity4, ViewBack},
     projection_matrix : {Identity4, ProjectW},
     viewport_matrix : {Identity4, create_viewport_matrix(4, 2)},
     time : {1}]

\* Vertex arrays: up to MaxVertices vertices, each one of two.
ArrayVertices == {MakeVertex(<<1, 0, 0>>, <<0, 0, 1>>), MakeVertex(<<0, 1, 1>>, <<0, 1, 0>>)}

VertexArrays == UNION {[1..n -> ArrayVertices] : n \in 0..MaxVertices}

ArrayUniforms ==
    {u \in VertexUniforms :
        /\ u.model_matrix = create_model_matrix(<<1, 0, 0>>, MaxScale, 1)
        /\ u.view_matrix = ViewBack
        /\ u.viewport_matrix = Identity4}

CallVertexShader ==
    /\ call.op = "none"
    /\ \E vertex \in Vertices, u \in VertexUniforms :
           call' = [op |-> "vertex_shader", vertex |-> vertex, uniforms |-> u,
                    w |-> ClipPosition(vertex, u)[4],
                    normal_matrix |-> NormalMatrix(u.model_matrix),
                    out |-> vertex_shader(vertex, u)]
    /\ UNCHANGED <<SHADER_INDEX, switches, rng, ev, frame_min, frame_win, iter>>
    /\ UNCHANGED fbvars
    /\ UNCHANGED mainvars

CallAssemble ==
    /\ call.op = "none"
    /\ \E vertex_array \in VertexArrays, u \in ArrayUniforms :
           \E assembled \in {PrimitiveAssembly(TransformVertices(vertex_array, u))} :
               call' = [op |-> "render", vertex_array |-> vertex_array, uniforms |-> u,
                        triangles |-> assembled.triangles, reads |-> assembled.reads]
    /\ UNCHANGED <<SHADER_INDEX, switches, rng, ev, frame_min, frame_win, iter>>
    /\ UNCHANGED fbvars
    /\ UNCHANGED mainvars

VertexNext ==
    \/ CallVertexShader
    \/ CallAssemble

VertexSpec == ShadeInit /\ [][VertexNext]_vars

(***************************************************************************)
(* The rasterizer, triangle(v1, v2, v3): the pixels of the bounding box    *)
(* whose centre lies in the triangle, each with the interpolated depth.    *)
(* Coordinates are doubled, so that the centre of pixel (x, y) is the      *)
(* integer point (2x + 1, 2y + 1).                                         *)
(***************************************************************************)
\* The edge function: twice the signed area of a, b, p.
EdgeFunction(a, b, p) ==
    (p[1] - a[1]) * (b[2] - a[2]) - (p[2] - a[2]) * (b[1] - a[1])

Doubled(p) == <<2 * p[1], 2 * p[2]>>

PixelCentre(x, y) == <<2 * x + 1, 2 * y + 1>>

Min3(a, b, c) == Min(a, Min(b, c))

Max3(a, b, c) == Max(a, Max(b, c))

\* The bounding box of three screen points, clipped to non-negative pixels.
BoundingBox(a, b, c) ==
    [min_x |-> Max(0, Min3(a[1], b[1], c[1])), max_x |-> Max3(a[1], b[1], c[1]),
     min_y |-> Max(0, Min3(a[2], b[2], c[2])), max_y |-> Max3(a[2], b[2], c[2])]

\* A triangle of area 0 emits no fragment.
IsDegenerate_Never(area) == FALSE

IsDegenerate(area) == area = 0

\* The barycentric weights of point p, before the division by the area.
Weights(a, b, c, p) ==
    <<EdgeFunction(b, c, p), EdgeFunction(c, a, p), EdgeFunction(a, b, p)>>

\* A pixel is covered when no weight has the sign opposite to the area's.
Covered(w, area) == \A k \in 1..3 : w[k] * area >= 0

\* The depth of the three vertices interpolated by the weights.
InterpolateDepth(w, depths, area) ==
    IF area = 0 THEN FarDepth
    ELSE (w[1] * depths[1] + w[2] * depths[2] + w[3] * depths[3]) \div area

\* The rows of the bounding box from pixel number k on, row by row.
RECURSIVE TriangleFrom(_, _, _, _, _, _, _)
TriangleFrom(k, acc, box, a, b, c, depths) ==
    LET columns == box.max_x - box.min_x + 1
        rows == box.max_y - box.min_y + 1
    IN  IF k >= columns * rows
        THEN acc
        ELSE LET x == box.min_x + (k % columns)
                 y == box.min_y + (k \div columns)
                 area == EdgeFunction(Doubled(a), Doubled(b), Doubled(c))
                 w == Weights(Doubled(a), Doubled(b), Doubled(c), PixelCentre(x, y))
             IN  TriangleFrom(k + 1,
                     IF Covered(w, area)
                     THEN Append(acc, [x |-> x, y |-> y,
                                       depth |-> InterpolateDepth(w, depths, area)])
                     ELSE acc,
                     box, a, b, c, depths)

triangle(a, b, c, depths) ==
    IF IsDegenerate(EdgeFunction(Doubled(a), Doubled(b), Doubled(c)))
    THEN <<>>
    ELSE TriangleFrom(0, <<>>, BoundingBox(a, b, c), a, b, c, depths)

\* `for fragment in fragments` of render from fragment k on, each shaded
\* with colour c; st holds the buffers, the draw colour, the history of least
\* depths and the framebuffer calls made.
RECURSIVE RenderFragmentsFrom(_, _, _, _)
RenderFragmentsFrom(k, st, frags, c) ==
    IF k > Len(frags)
    THEN st
    ELSE LET x == AsUsize(frags[k].x)
             y == AsUsize(frags[k].y)
             nx == IF FragmentVisible(x, y) /\ InBounds(x, y)
                   THEN [b |-> PointBuffer(st.b, st.z, c, x, y, frags[k].depth),
                         z |-> PointZBuffer(st.b, st.z, c, x, y, frags[k].depth),
                         m |-> SubmitMin(st.m, x, y, frags[k].depth),
                         w |-> SubmitWin(st.w, st.z, c, x, y, frags[k].depth),
                         color |-> c,
                         calls |-> st.calls \o FragmentCalls("render")]
                   ELSE st
         IN  RenderFragmentsFrom(k + 1, nx, frags, c)

(***************************************************************************)
(* RasterSpec: render rasterizes one triangle that lies parallel to the    *)
(* screen and processes its fragments.                                     *)
(***************************************************************************)
ScreenPoints == (0..MaxScreen) \X (0..MaxScreen)

CallTriangle ==
    /\ call.op = "none"
    /\ \E a \in ScreenPoints, b \in ScreenPoints, c \in ScreenPoints, depth \in Depths :
           \E frags \in {triangle(a, b, c, <<depth, depth, depth>>)} :
               \E st \in {RenderFragmentsFrom(1, [b |-> buffer, z |-> zbuffer,
                                                  m |-> frame_min,
                                                  w |-> frame_win,
                                                  color |-> current_color,
                                                  calls |-> <<>>],
                                              frags, SunColor)} :
                   /\ buffer' = st.b
                   /\ zbuffer' = st.z
                   /\ frame_min' = st.m
                   /\ frame_win' = st.w
                   /\ current_color' = st.color
                   /\ call' = [op |-> "triangle", points |-> <<a, b, c>>, depth |-> depth,
                               fragments |-> frags, calls |-> st.calls]
    /\ UNCHANGED <<width, height, background_color, emission_color>>
    /\ UNCHANGED <<SHADER_INDEX, switches, rng, ev, iter>>
    /\ UNCHANGED mainvars

RasterNext == CallTriangle

RasterSpec == Init /\ [][RasterNext]_vars

(***************************************************************************)
(* DrawSpec: the render functions on shaded fragments.  Each call shades    *)
(* one fragment that lies on the first pixel with the shader of the         *)
(* function and writes it; switch_shader is called in between.              *)
(***************************************************************************)
\* Color::to_hex.
to_hex(c) == c[1] * 65536 + c[2] * 256 + c[3]

\* The framebuffer calls of one fragment with their arguments.
DrawArgs(name, f, c) ==
    CASE name = "set_current_color" -> <<c>>
      [] name = "set_emission_color" -> <<SunEmission>>
      [] name = "point" -> <<AsUsize(f.x), AsUsize(f.y), f.depth>>

DrawCalls(fn, f, c) ==
    [k \in 1..Len(FragmentCalls(fn)) |->
        [name |-> FragmentCalls(fn)[k], args |-> DrawArgs(FragmentCalls(fn)[k], f, c)]]

\* Fragments on the first pixel, as a render function reads them.
DrawFragments ==
    [x : {0}, y : {0}, depth : {MaxDepth},
     vertex_position : ShadePositions, intensity : {0, 1}]

\* The uniforms of one frame.
DrawUniforms == {MakeUniforms(MaxFrames, <<"none", 0>>)}

\* call after render function fn has processed f under u: the shader index it
\* ran under, the colour it shaded, the calls it made and, when the call
\* before was the same function on the same fragment and uniforms, the index
\* and the calls of that one.
DrawCall(fn, f, u, c) ==
    LET again == /\ call.op = fn
                 /\ call.fragment = f
                 /\ call.uniforms = u
    IN  [op |-> fn, fragment |-> f, uniforms |-> u, index |-> SHADER_INDEX,
         color |-> c,
         calls |-> DrawCalls(fn, f, c),
         again |-> again,
         previous |-> IF again THEN [index |-> call.index, calls |-> call.calls]
                      ELSE [index |-> SHADER_INDEX, calls |-> <<>>]]

CallDraw ==
    \E fn \in RenderFns, f \in DrawFragments, u \in DrawUniforms :
        \E c \in {to_hex(Shade(ShaderOf(fn), f, u))} :
            /\ ProcessFragment(fn, f, c)
            /\ call' = DrawCall(fn, f, u, c)
            /\ rng' = RngAfter(ShaderOf(fn), f, u)
            /\ UNCHANGED <<SHADER_INDEX, switches, iter>>
            /\ UNCHANGED mainvars

DrawNext ==
    \/ CallDraw
    \/ ApiSwitchShader

DrawSpec == ShadeInit /\ [][DrawNext]_vars

(***************************************************************************)
(* Properties.                                                             *)
(***************************************************************************)
\* The pixel a direct point call addressed.
EvPixel == Index(ev.x, ev.y)

\* C1: a point call whose depth is strictly greater than the depth an
\* accepted write has stored at its pixel changes no colour and no depth of
\* the framebuffer, whatever the draw colour is.
C1_RejectFarther ==
    [][(/\ ev'.op = "point"
        /\ zbuffer[Index(ev'.x, ev'.y)] < FarDepth
        /\ ev'.depth > zbuffer[Index(ev'.x, ev'.y)])
       => (buffer' = buffer /\ zbuffer' = zbuffer)]_vars

\* A farther fragment was rejected at a pixel holding another colour than the
\* draw colour.
C1_Witness ==
    /\ ev.op = "point"
    /\ ev.stored < FarDepth
    /\ ev.depth > ev.stored
    /\ zbuffer[EvPixel] = ev.stored
    /\ buffer[EvPixel] # current_color

\* C2: a point call whose depth is strictly smaller than the depth stored at
\* its pixel sets that pixel's colour to the draw colour and its depth to the
\* call's depth, and changes no other pixel.
C2_AcceptNearer ==
    [][(/\ ev'.op = "point"
        /\ ev'.depth < zbuffer[Index(ev'.x, ev'.y)])
       => (/\ buffer' = [buffer EXCEPT ![Index(ev'.x, ev'.y)] = current_color]
           /\ zbuffer' = [zbuffer EXCEPT ![Index(ev'.x, ev'.y)] = ev'.depth])]_vars

\* A nearer fragment replaced an earlier write, in a frame of two pixels whose
\* other pixel is written too.
C2_Witness ==
    /\ ev.op = "point"
    /\ ev.stored < FarDepth
    /\ ev.depth < ev.stored
    /\ zbuffer[EvPixel] = ev.depth
    /\ buffer[EvPixel] = current_color
    /\ \E p \in Pixels : p # EvPixel /\ zbuffer[p] < FarDepth /\ buffer[p] # buffer[EvPixel]

\* C3: right after clear, every pixel of the width x height colour buffer
\* holds the configured background colour and every depth cell the far
\* sentinel, whatever the framebuffer held before.
C3_ClearResets ==
    ev.op = "clear" =>
        /\ DOMAIN buffer = 0..(width * height - 1)
        /\ DOMAIN zbuffer = 0..(width * height - 1)
        /\ \A p \in Pixels : buffer[p] = background_color /\ zbuffer[p] = FarDepth

\* A clear to a background colour that was configured after construction found
\* every pixel changed.
C3_Witness ==
    /\ ev.op = "clear"
    /\ ev.dirty = width * height
    /\ width * height > 1
    /\ background_color = White
    /\ emission_color = SunEmission

\* C4: between two clears no stored depth ever increases, and the depth
\* stored at a pixel is the least depth submitted for it since the last
\* clear, or the far sentinel when nothing was submitted.
C4_DepthMonotone ==
    /\ [](\A p \in Pixels : zbuffer[p] = frame_min[p])
    /\ [][ev'.op = "clear" \/ (\A p \in Pixels : zbuffer'[p] <= zbuffer[p])]_vars

\* A pixel keeps the least of the depths submitted for it after a farther
\* fragment arrived, while another pixel has had no fragment.
C4_Witness ==
    /\ ev.op = "point"
    /\ ev.accepted = 0
    /\ frame_min[EvPixel] < ev.depth
    /\ \E p \in Pixels : frame_min[p] = FarDepth /\ zbuffer[p] = FarDepth

\* The shader index after n calls of switch_shader from index.
RECURSIVE SwitchTimes(_, _)
SwitchTimes(n, index) ==
    IF n = 0 THEN index ELSE SwitchTimes(n - 1, switch_shader(index))

\* C5: from every reachable shader index, 7 calls of switch_shader in a row
\* return the index to its value, and no smaller positive number of calls does.
C5_SevenCycle ==
    /\ SwitchTimes(7, SHADER_INDEX) = SHADER_INDEX
    /\ \A k \in 1..6 : SwitchTimes(k, SHADER_INDEX) # SHADER_INDEX

\* The selection has wrapped around: a switch has just returned it to 0.
C5_Witness == ev.op = "switch_shader" /\ SHADER_INDEX = 0

\* C6: no render function calls point, or set_current_color, for a pixel
\* outside the frame: a fragment outside causes no framebuffer call at all, and
\* every point call is for a pixel with x < width and y < height.
C6_NoStrayCalls ==
    /\ ev.stray = 0
    /\ (ev.op \in RenderFns /\ ~ev.inside) => ev.calls = <<>>
    /\ (ev.op \in RenderFns /\ HasPoint(ev.calls)) => ev.inside

\* A fragment outside the frame went through a render function.
C6_Witness == ev.op \in RenderFns /\ ~ev.inside /\ ev.calls = <<>>

\* C7: in an iteration of the frame loop clear is called at most once, no
\* point write precedes it, and a presented frame was cleared exactly once.
C7_ClearFirst ==
    /\ iter.clears <= 1
    /\ iter.pointed => iter.clears = 1
    /\ iter.presents > 0 => iter.clears = 1

\* A frame with an accepted sequence clear, point writes, present.
C7_Witness == iter.clears = 1 /\ iter.pointed /\ iter.presents = 1

\* The objects of a frame: the sun, eight planets, the points of two trails
\* and two ships.
AllObjects ==
    {<<n, 0>> : n \in {"sun", "mercury", "venus", "earth", "mars", "jupiter", "saturn",
                       "uranus", "neptune", "spaceship", "navecita"}}
    \cup {<<n, i>> : n \in {"mercury_trail", "venus_trail"}, i \in 0..(TrailLength - 1)}

\* C8: an iteration hands the colour buffer to the window at most once, and
\* only when the render calls of all objects have returned; every iteration
\* that runs to its end has handed it over; no framebuffer call is made
\* between the hand-off and the next clear; an iteration left on Escape has
\* handed over nothing.
C8_PresentComplete ==
    /\ iter.presents <= 1
    /\ iter.presents = 1 => (iter.begun = AllObjects /\ iter.ended = AllObjects)
    /\ (pc = "while" /\ time > 0) => iter.presents = 1
    /\ iter.stale = 0
    /\ iter.escaped => (iter.presents = 0 /\ pc = "done")

\* The second frame has been presented with point writes in it.
C8_Witness == iter.presents = 1 /\ iter.pointed /\ time = 2 /\ pc = "while"

\* C9: the frame counter only changes by the `time += 1` of an iteration,
\* which raises it by 1; it keeps that value through the draw calls up to the
\* hand-off, and every Uniforms built in the iteration carries it.
C9_FrameCounter ==
    /\ [][time' = time \/ (pc = "tick" /\ time' = time + 1)]_vars
    /\ [](pc \in {"body", "fragments"} => time = iter.time_at_head + 1)
    /\ [](iter.presents = 1 => time = iter.time_at_head + 1)
    /\ [](iter.times \subseteq {time})
    /\ [](pc = "fragments" => uniforms.time = time)

\* The second frame has been presented and all its Uniforms carried 2.
C9_Witness ==
    /\ iter.presents = 1
    /\ iter.time_at_head = 1
    /\ time = 2
    /\ iter.times = {2}
    /\ iter.begun = AllObjects

Sun == <<"sun", 0>>

\* C10: an iteration calls apply_emission at most once, when render_sol has
\* returned and no other object has been begun; no other object is begun
\* before it; a presented frame has had it; and render_sol sets the emission
\* colour before each of its point calls.
C10_EmissionOrder ==
    /\ iter.emissions <= 1
    /\ iter.emissions = 1 => (iter.emitted_begun = {Sun} /\ iter.emitted_ended = {Sun})
    /\ (iter.begun \ {Sun}) # {} => iter.emissions = 1
    /\ iter.presents = 1 => iter.emissions = 1
    /\ (ev.op = "render_sol" /\ HasPoint(ev.calls))
           => ev.calls = <<"set_current_color", "set_emission_color", "point">>

\* apply_emission has just run over a point the sun wrote.
C10_Witness ==
    /\ ev.op = "apply_emission"
    /\ iter.emissions = 1
    /\ iter.pointed
    /\ emission_color = SunEmission
    /\ \E p \in Pixels : zbuffer[p] < FarDepth

\* C11: for a vertex array of length n, render assembles n div 3 triangles;
\* triangle k holds the transformed vertices 3k, 3k + 1 and 3k + 2 (counted
\* from 0) in that order; no index past the end is read, and the vertices
\* after the last full triple are not read at all.
C11_PrimitiveAssembly ==
    call.op = "render" =>
        LET n == Len(call.vertex_array)
        IN  /\ Len(call.triangles) = n \div 3
            /\ \A k \in 1..Len(call.triangles) :
                   call.triangles[k] =
                       << vertex_shader(call.vertex_array[3 * k - 2], call.uniforms),
                          vertex_shader(call.vertex_array[3 * k - 1], call.uniforms),
                          vertex_shader(call.vertex_array[3 * k], call.uniforms) >>
            /\ call.reads = 0..(3 * (n \div 3) - 1)
            /\ \A i \in call.reads : i < n

\* Seven vertices gave two different triangles and one vertex was dropped.
C11_Witness ==
    /\ call.op = "render"
    /\ Len(call.vertex_array) = 7
    /\ Len(call.triangles) = 2
    /\ call.triangles[1] # call.triangles[2]
    /\ call.triangles[2][1] # call.triangles[2][2]
    /\ 6 \notin call.reads


\* Three screen points on one line, coincident points included.
Collinear(points) ==
    (points[2][1] - points[1][1]) * (points[3][2] - points[1][2])
        = (points[2][2] - points[1][2]) * (points[3][1] - points[1][1])

\* C12: for a triangle whose three screen points are collinear the rasterizer
\* returns no fragment, and rendering it makes no framebuffer call and leaves
\* the colour buffer, the depth buffer and the draw colour as they were.
C12_DegenerateTriangle ==
    [][(call'.op = "triangle" /\ Collinear(call'.points))
        => (/\ call'.fragments = <<>>
            /\ call'.calls = <<>>
            /\ buffer' = buffer
            /\ zbuffer' = zbuffer
            /\ current_color' = current_color)]_vars

\* Three different points on a line through the first pixel gave nothing.
C12_Witness ==
    /\ call.op = "triangle"
    /\ Collinear(call.points)
    /\ call.points[1] = <<0, 0>>
    /\ call.points[2] # call.points[1]
    /\ call.points[3] # call.points[1]
    /\ call.points[3] # call.points[2]
    /\ call.fragments = <<>>
    /\ \A p \in Pixels : zbuffer[p] = FarDepth

\* A triangle over the first pixel was written there.
C12_CoveredWitness ==
    /\ call.op = "triangle"
    /\ ~Collinear(call.points)
    /\ Len(call.fragments) > 1
    /\ HasPoint(call.calls)
    /\ buffer[0] = SunColor


ShadeOps == {"fragment_shader", "fragment_shader2", "planet_shader"}

\* C13: a fragment_shader call that repeats the call before it, with the
\* same fragment and uniforms and no switch_shader in between, returns the
\* colour that call returned, also under the random black-and-white shader.
C13_ShadingDeterministic ==
    (call.op = "fragment_shader" /\ call.repeat) => call.color = call.previous

\* The black-and-white shader has drawn white twice in a row for a lit
\* fragment with a seed other than 0.
C13_Witness ==
    /\ call.op = "fragment_shader"
    /\ call.repeat
    /\ call.shader = "black_and_white"
    /\ BlackAndWhiteSeed(call.fragment, call.uniforms) > 0
    /\ call.pattern = Color(255, 255, 255)
    /\ call.color # Color(0, 0, 0)
    /\ call.previous = call.color

\* C14 as stated: under every shader variant, the planet shaders included, a
\* fragment of intensity 0 does not get the colour its fully lit twin gets,
\* nor the palette colour the shader chose.
C14_AllScaleByIntensity ==
    (/\ call.op \in ShadeOps
     /\ call.fragment.intensity = 0
     /\ call.lit # Color(0, 0, 0))
        => (call.color # call.lit /\ call.color # call.pattern)

\* C14 as amended: the index-dispatched shaders return the colour they chose
\* scaled by fragment.intensity, black at intensity 0; the emissive shader
\* blends by it, so intensity 0 gets neither the base colour nor the fully
\* lit colour; the planet shaders earth, uranus, neptune, venus, jupiter,
\* saturn and mars return the colour they chose whatever the intensity is.
C14_IndexShadersScale ==
    /\ (call.op = "fragment_shader")
           => (/\ call.shader \in IndexShaders
               /\ call.color = ScaleColor(call.pattern, call.fragment.intensity,
                                           IntensityScale)
               /\ call.fragment.intensity = 0 => call.color = Color(0, 0, 0))
    /\ (call.op = "fragment_shader2" /\ call.fragment.intensity = 0)
           => (call.color # call.pattern /\ call.color # call.lit)
    /\ (call.op = "planet_shader")
           => (/\ call.shader \in PlanetShaders
               /\ call.color = call.lit
               /\ call.color = call.pattern)

\* A planet shader has given a fragment of intensity 0 a palette colour.
C14_Witness ==
    /\ call.op = "planet_shader"
    /\ call.shader = "earth"
    /\ call.fragment.intensity = 0
    /\ call.color \in {Color(0, 0, 255), Color(34, 139, 34), Color(255, 255, 255)}
    /\ call.color = call.lit

\* The cellular shader has scaled its light green by half.
C14_ScaledWitness ==
    /\ call.op = "fragment_shader"
    /\ call.shader = "cellular"
    /\ call.fragment.intensity = 1
    /\ call.pattern # call.color
    /\ call.color # Color(0, 0, 0)

\* C15: the vertex vertex_shader returns has the position, normal, tex_coords
\* and color of its input; only transformed_position and transformed_normal
\* are computed anew, from the input and the uniforms.
C15_ModelFieldsRetained ==
    call.op = "vertex_shader" =>
        /\ call.out.position = call.vertex.position
        /\ call.out.normal = call.vertex.normal
        /\ call.out.tex_coords = call.vertex.tex_coords
        /\ call.out.color = call.vertex.color
        /\ call.out.transformed_normal = RMat3Vec(call.normal_matrix, call.vertex.normal)
        /\ DOMAIN call.out = DOMAIN call.vertex

\* A vertex came back with both transformed fields changed and its position
\* kept.
C15_Witness ==
    /\ call.op = "vertex_shader"
    /\ call.out.transformed_position # call.vertex.transformed_position
    /\ call.out.transformed_normal # call.vertex.transformed_normal
    /\ call.out.position = call.vertex.position
    /\ call.out.position # <<0, 0, 0>>

AllIdentity(u) ==
    /\ u.model_matrix = Identity4
    /\ u.view_matrix = Identity4
    /\ u.projection_matrix = Identity4
    /\ u.viewport_matrix = Identity4

\* C16: under identity model, view, projection and viewport matrices the
\* clip-space w is 1 and vertex_shader returns the position as
\* transformed_position and the normal as transformed_normal.
C16_IdentityFixedPoint ==
    (call.op = "vertex_shader" /\ AllIdentity(call.uniforms)) =>
        /\ call.w = 1
        /\ call.out.transformed_position = RVec(call.vertex.position)
        /\ call.out.transformed_normal = RVec(call.vertex.normal)

\* A vertex away from the origin went through the identity pipeline.
C16_Witness ==
    /\ call.op = "vertex_shader"
    /\ AllIdentity(call.uniforms)
    /\ call.vertex.position = <<1, -1, 1>>
    /\ call.out.transformed_position = <<FromInt(1), FromInt(-1), FromInt(1)>>

\* C17: when the upper 3 x 3 block of the model matrix has determinant 0,
\* vertex_shader returns, with the identity as normal matrix and the normal
\* as transformed_normal; otherwise the normal matrix times the transpose of
\* the block is the identity.
C17_SingularModelMatrix ==
    call.op = "vertex_shader" =>
        LET block == mat4_to_mat3(call.uniforms.model_matrix)
        IN  IF Det3(block) = 0
            THEN /\ call.normal_matrix = RMat3(Identity3)
                 /\ call.out.transformed_normal = RVec(call.vertex.normal)
            ELSE RMat3Mul(call.normal_matrix, Transpose3(block)) = RMat3(Identity3)

\* A model matrix of scale 0 left the normal as it was.
C17_Witness ==
    /\ call.op = "vertex_shader"
    /\ Det3(mat4_to_mat3(call.uniforms.model_matrix)) = 0
    /\ call.vertex.normal = <<1, 1, 0>>
    /\ call.out.transformed_normal = RVec(<<1, 1, 0>>)

\* C18: switch_shader is called only by the Space key check at the head of
\* the loop, once when is_key_pressed reports a press and not at all
\* otherwise, so at most once per iteration and never after the iteration has
\* cleared or begun to draw; an iteration without a press keeps the shader
\* index it started with.
C18_SwitchOncePerPress ==
    /\ [](iter.switches = (IF iter.pressed THEN 1 ELSE 0))
    /\ [](SHADER_INDEX = (IF iter.pressed THEN switch_shader(iter.index_at_head)
                                           ELSE iter.index_at_head))
    /\ [][(switches' # switches \/ SHADER_INDEX' # SHADER_INDEX)
            => (/\ pc = "space"
                /\ iter'.pressed
                /\ ev'.op = "switch_shader"
                /\ switches' = switches + 1
                /\ iter.clears = 0
                /\ iter.begun = {})]_vars

\* A frame without a press was presented with the index a press of the frame
\* before had selected.
C18_Witness ==
    /\ iter.presents = 1
    /\ ~iter.pressed
    /\ iter.switches = 0
    /\ switches = 1
    /\ SHADER_INDEX = 1
    /\ iter.index_at_head = 1

\* The objects main draws through render.
RenderObjects == {"mercury", "mercury_trail", "venus_trail", "spaceship", "navecita"}

\* C19: fragment_shader dispatches on one read of the shader index, and the
\* index does not change while an iteration draws: every fragment shaded
\* through render in one iteration was dispatched on the same index value,
\* the one the index has when the frame is presented.
C19_IndexStableInFrame ==
    /\ [](\A d \in iter.dispatched : d[2] = SHADER_INDEX /\ d[1] \in RenderObjects)
    /\ []((ev.op = "render" /\ ev.calls # <<>>) => ev.shader = ShaderName(SHADER_INDEX))
    /\ [][(pc \in {"body", "fragments"}) => (SHADER_INDEX' = SHADER_INDEX)]_vars

\* Mercury, both trails and both ships were shaded in a frame that began with
\* a switch.
C19_Witness ==
    /\ iter.presents = 1
    /\ iter.pressed
    /\ iter.dispatched = {<<o, 1>> : o \in RenderObjects}

\* C20: the shader index is in 0..6 in every state, its increment stays
\* below 256, only switch_shader changes it, and after n calls of
\* switch_shader from the start it is n mod 7.
C20_IndexInRange ==
    /\ [](SHADER_INDEX \in 0..6)
    /\ [](SHADER_INDEX + 1 < 256)
    /\ [](SHADER_INDEX = switches % 7)
    /\ [][SHADER_INDEX' # SHADER_INDEX
            => (ev'.op = "switch_shader" /\ switches' = switches + 1)]_vars

\* The eighth call has taken the index past the wrap-around to 1.
C20_Witness == ev.op = "switch_shader" /\ switches = 8 /\ SHADER_INDEX = 1


\* C21: fragment_shader returns at index 1 what dalmata_shader returns, at 2
\* cloud_shader, at 3 cellular_shader, at 4 lava_shader, at 5 black_and_white,
\* at 6 moon_shader, and at index 0 what cellular_shader returns too, so the
\* colour at index 0 is the colour at index 3; the seven indices select six
\* shaders, and in a cycle of seven switches cellular is the active shader at
\* the switch counts 0 and 3 modulo 7 only.
C21_CellularTwice ==
    /\ call.op = "fragment_shader"
        => /\ call.index \in {0, 3} => call.color = cellular_shader(call.fragment, call.uniforms)
           /\ call.index = 0 => call.color = Shade(ShaderName(3), call.fragment, call.uniforms)
           /\ call.index = 1 => call.color = dalmata_shader(call.fragment, call.uniforms)
           /\ call.index = 2 => call.color = cloud_shader(call.fragment, call.uniforms)
           /\ call.index = 4 => call.color = lava_shader(call.fragment, call.uniforms)
           /\ call.index = 5 => call.color = black_and_white(call.fragment, call.uniforms)
           /\ call.index = 6 => call.color = moon_shader(call.fragment, call.uniforms)
    /\ (ShaderName(SHADER_INDEX) = "cellular") <=> (switches % ShaderCount \in {0, 3})
    /\ Cardinality({ShaderName(i) : i \in 0..(ShaderCount - 1)}) = ShaderCount - 1

\* After a full cycle of switches, fragment_shader at index 0 returned a
\* cellular colour that the shader of no other index returns.
C21_Witness ==
    /\ call.op = "fragment_shader"
    /\ call.index = 0
    /\ call.at = ShaderCount
    /\ call.color = cellular_shader(call.fragment, call.uniforms)
    /\ \A name \in IndexShaders \ {"cellular"} :
           call.color # Shade(name, call.fragment, call.uniforms)


SunAndPlanetFns == {"render_sol"} \cup PlanetFns

\* C22: when render_sol or the render function of a planet processes the
\* fragment and uniforms it processed in the call before, it makes the same
\* set_current_color, set_emission_color and point calls with the same
\* arguments, whatever switch_shader calls lie between the two; the calls of
\* render alone can differ.
C22_SelectionOnlyInRender ==
    (call.op \in SunAndPlanetFns /\ call.again) => call.calls = call.previous.calls

\* render_venus drew a fragment twice under two shader indices, in a colour
\* that is not black.
C22_Witness ==
    /\ call.op = "render_venus"
    /\ call.again
    /\ call.index # call.previous.index
    /\ call.calls = call.previous.calls
    /\ HasPoint(FragmentCalls(call.op))
    /\ call.color # Black
    /\ buffer[0] = call.color

\* render drew a fragment twice under two indices in two colours.
C22_RenderWitness ==
    /\ call.op = "render"
    /\ call.again
    /\ call.index # call.previous.index
    /\ call.calls # call.previous.calls

\* C23: in render and in the render function of every planet the point call of
\* a fragment directly follows set_current_color with the colour shaded for
\* that fragment and finds it as the draw colour; so a pixel holds the colour
\* of the fragment or trail point that last won its depth test, whatever has
\* been drawn before or since, as long as apply_emission has not added the
\* emission colour to it.
C23_OwnColour ==
    /\ (ev.op \in {"render"} \cup PlanetFns /\ HasPoint(ev.calls))
        => /\ ev.calls = <<"set_current_color", "point">>
           /\ ev.drawn = ev.color
           /\ current_color = ev.color
    /\ \A p \in Pixels :
           (frame_win[p].written /\ ~frame_win[p].emissive)
               => buffer[p] = frame_win[p].color

\* The frame is presented with a pixel that holds the colour of the planet
\* or ship fragment that won it, after a fragment of another colour was
\* drawn and lost the depth test there or went elsewhere.
C23_Witness ==
    /\ pc = "body" /\ Current.kind = "present"
    /\ \E p \in Pixels :
           /\ frame_win[p].written /\ ~frame_win[p].emissive
           /\ buffer[p] = frame_win[p].color
           /\ buffer[p] # current_color
           /\ frame_min[p] = zbuffer[p]
    /\ current_color \in ShadedColors

\* A pixel that apply_emission found written, and that no fragment has won
\* since, holds the colour of its fragment with the emission colour added.
SunPixelsGlow ==
    \A p \in Pixels :
        (frame_win[p].written /\ frame_win[p].emissive)
            => buffer[p] = AddColor(frame_win[p].color, SunEmission)

====
